---- MODULE Spec2Model ----
(***************************************************************************)
(* Model of pyion's _mem extension module (src/pyion/_mem.c): the two      *)
(* entry points sdr_dump (pyion_sdr_dump, the transactional reader) and    *)
(* psm_dump (pyion_psm_dump, the direct reader), the ION collaborator      *)
(* calls they make, and other ION clients that mutate the SDR heap inside  *)
(* transactions while the reader runs.                                     *)
(***************************************************************************)
EXTENDS Integers, Sequences, FiniteSets, TLC

(* ------------------------------------------------------------------ *)
(* Bounds of the model                                                  *)
(* ------------------------------------------------------------------ *)

\* Number of small-pool size classes (ION build constant, scaled down).
SMALL_SIZES == 2

\* Number of large-pool orders (ION build constant, scaled down).
LARGE_ORDERS == 2

\* Most free blocks a size class holds in the concurrent model.
MaxBlocks == 1

\* Most transactions the mutating clients run in one behaviour.
MaxXn == 2

\* Byte counts 0..MaxBytes are drawn next to the documented example values.
MaxBytes == 0

\* Free-block counts 0..MaxCount are drawn for the histogram inputs.
MaxCount == 1

(* ------------------------------------------------------------------ *)
(* Program constants and machine arithmetic                             *)
(* ------------------------------------------------------------------ *)

\* Bytes in one machine word (platform.h); lp_blk_size starts from it.
WORD_SIZE == 8

\* size_t and unsigned long arithmetic is modular.  The modulus is 2^30
\* here in place of 2^64, so that every intermediate value is an integer
\* the model checker can represent.
SizeMod == 2^30

\* a + b in size_t
AddSz(a, b) == (a + b) % SizeMod

\* a - b in size_t
SubSz(a, b) == (a - b) % SizeMod

\* a * 2 in size_t
DblSz(a) == (a * 2) % SizeMod

\* Py_BuildValue("k", (unsigned long) v): a Python int holding v as an
\* unsigned long.
BuildValueK(v) == v % SizeMod

\* PyDict_New(): the empty mapping.
PyDict_New == <<>>

\* PyDict_SetItem(d, key, val): insert, or replace the value under key.
PyDict_SetItem(d, key, val) ==
    [k \in (DOMAIN d) \cup {key} |-> IF k = key THEN val ELSE d[k]]

(* ------------------------------------------------------------------ *)
(* Names, keys and results                                              *)
(* ------------------------------------------------------------------ *)

\* The SDR that exists, and the names a caller may pass.
SdrNames == {"ion"}
ArgNames == {"ion", "nosuch"}

\* The key of the PSM partition that exists, and the keys a caller may pass.
PsmKeys == {1}
ArgKeys == {1, 2}

NULL == "NULL"

NoUsage == [none |-> TRUE]

NoResult == [kind |-> "none"]

\* pyion_SetExc(exc, fmt, arg) followed by return NULL.
RaiseExc(exc, fmt, fmtArgs) ==
    [kind |-> "error", exc |-> exc, msg |-> fmt, args |-> fmtArgs]

\* return NULL with no exception set by this function.
ReturnNull == [kind |-> "error", exc |-> "unset", msg |-> "", args |-> <<>>]

AttachSdrMsg == "Could not attach to SDR with name '%s'."
IpcInitMsg   == "IPC initialization failed."
AttachPsmMsg == "Can't attach to PSM with key '%i'."
BeginXnMsg   == "Could not begin SDR transaction."

(* ------------------------------------------------------------------ *)
(* Shaping of a usage summary (both readers)                            *)
(* ------------------------------------------------------------------ *)

SmallStepSame(sp_blk_size) == WORD_SIZE

\* sp_blk_size += WORD_SIZE
SmallStep(sp_blk_size) == AddSz(sp_blk_size, WORD_SIZE)

\* lp_blk_size *= 2
LargeStep(lp_blk_size) == DblSz(lp_blk_size)

\* for (i = 0; i < SMALL_SIZES; i++) { ... PyDict_SetItem(sp_blocks, ...) }
\* counts is the C array smallPoolFreeBlockCount, held 1-based.
RECURSIVE SmallLoop(_, _, _, _)
SmallLoop(i, sp_blk_size, sp_blocks, counts) ==
    IF i >= SMALL_SIZES THEN sp_blocks
    ELSE LET blk == SmallStep(sp_blk_size)
             key == BuildValueK(blk)
             val == BuildValueK(counts[i + 1])
         IN  SmallLoop(i + 1, blk, PyDict_SetItem(sp_blocks, key, val), counts)

\* for (i = 0; i < LARGE_ORDERS; i++) { ... PyDict_SetItem(lp_blocks, ...) }
RECURSIVE LargeLoop(_, _, _, _)
LargeLoop(i, lp_blk_size, lp_blocks, counts) ==
    IF i >= LARGE_ORDERS THEN lp_blocks
    ELSE LET blk == LargeStep(lp_blk_size)
             key == BuildValueK(blk)
             val == BuildValueK(counts[i + 1])
         IN  LargeLoop(i + 1, blk, PyDict_SetItem(lp_blocks, key, val), counts)

\* sp_blocks after the first loop; sp_blk_size starts at 0.
SmallHistogram(counts) == SmallLoop(0, 0, PyDict_New, counts)

\* lp_blocks after the second loop; lp_blk_size starts at WORD_SIZE.
LargeHistogram(counts) == LargeLoop(0, WORD_SIZE, PyDict_New, counts)

HpUsedNoLarge(hp_size, sp_avail, lp_avail, hp_avail) ==
    SubSz(hp_size, AddSz(sp_avail, hp_avail))

\* hp_used = hp_size - (sp_avail+lp_avail+hp_avail)
HpUsed(hp_size, sp_avail, lp_avail, hp_avail) ==
    SubSz(hp_size, AddSz(AddSz(sp_avail, lp_avail), hp_avail))

HpMaxUAdd(hp_size, hp_avail) == AddSz(hp_size, hp_avail)

\* hp_max_u = hp_size - hp_avail
HpMaxU(hp_size, hp_avail) == SubSz(hp_size, hp_avail)

\* The first element of the tuple pyion_sdr_dump returns.
SdrAggregate(u) ==
    [small_pool_avail |-> BuildValueK(u.smallPoolFree),
     small_pool_used  |-> BuildValueK(u.smallPoolAllocated),
     small_pool_total |-> BuildValueK(u.smallPoolSize),
     large_pool_avail |-> BuildValueK(u.largePoolFree),
     large_pool_used  |-> BuildValueK(u.largePoolAllocated),
     large_pool_total |-> BuildValueK(u.largePoolSize),
     heap_size        |-> BuildValueK(u.heapSize),
     heap_avail       |-> BuildValueK(u.unusedSize),
     heap_used        |-> BuildValueK(HpUsed(u.heapSize, u.smallPoolFree,
                                             u.largePoolFree, u.unusedSize)),
     max_heap_used    |-> BuildValueK(HpMaxU(u.heapSize, u.unusedSize))]

\* The tuple pyion_sdr_dump returns: (aggregate, sp_blocks, lp_blocks).
SdrResult(u) ==
    [kind |-> "ok",
     agg  |-> SdrAggregate(u),
     sp   |-> SmallHistogram(u.smallPoolFreeBlockCount),
     lp   |-> LargeHistogram(u.largePoolFreeBlockCount)]

PsmAggregateSwapped(u) ==
    [small_pool_avail |-> BuildValueK(u.smallPoolFree),
     small_pool_used  |-> BuildValueK(u.smallPoolAllocated),
     small_pool_total |-> BuildValueK(u.smallPoolSize),
     large_pool_avail |-> BuildValueK(u.largePoolFree),
     large_pool_used  |-> BuildValueK(u.largePoolAllocated),
     large_pool_total |-> BuildValueK(u.largePoolSize),
     wm_size          |-> BuildValueK(u.unusedSize),
     wm_avail         |-> BuildValueK(u.partitionSize)]

\* The first element of the tuple pyion_psm_dump returns.
PsmAggregate(u) ==
    [small_pool_avail |-> BuildValueK(u.smallPoolFree),
     small_pool_used  |-> BuildValueK(u.smallPoolAllocated),
     small_pool_total |-> BuildValueK(u.smallPoolSize),
     large_pool_avail |-> BuildValueK(u.largePoolFree),
     large_pool_used  |-> BuildValueK(u.largePoolAllocated),
     large_pool_total |-> BuildValueK(u.largePoolSize),
     wm_size          |-> BuildValueK(u.partitionSize),
     wm_avail         |-> BuildValueK(u.unusedSize)]

\* The tuple pyion_psm_dump returns: (aggregate, sp_blocks, lp_blocks).
PsmResult(u) ==
    [kind |-> "ok",
     agg  |-> PsmAggregate(u),
     sp   |-> SmallHistogram(u.smallPoolFreeBlockCount),
     lp   |-> LargeHistogram(u.largePoolFreeBlockCount)]

(* ------------------------------------------------------------------ *)
(* The arenas                                                           *)
(* ------------------------------------------------------------------ *)

\* Bytes in a block of size class i (1-based) of a pool, as the allocator
\* lays the classes out.
BlockSize(pool, i) ==
    IF pool = "small" THEN WORD_SIZE * i ELSE WORD_SIZE * (2 ^ i)

Classes(pool) == IF pool = "small" THEN 1..SMALL_SIZES ELSE 1..LARGE_ORDERS

\* Bytes held by the free blocks that counts records for a pool.
RECURSIVE FreeBytes(_, _, _)
FreeBytes(pool, counts, n) ==
    IF n = 0 THEN 0
    ELSE counts[n] * BlockSize(pool, n) + FreeBytes(pool, counts, n - 1)

\* A usage summary whose byte totals agree with its free-block counters:
\* sa and la bytes are allocated in the pools, un bytes were never used.
Summary(sc, lc, sa, la, un) ==
    LET sf == FreeBytes("small", sc, SMALL_SIZES)
        lf == FreeBytes("large", lc, LARGE_ORDERS)
    IN  [smallPoolFree           |-> sf,
         smallPoolAllocated      |-> sa,
         smallPoolSize           |-> sf + sa,
         largePoolFree           |-> lf,
         largePoolAllocated      |-> la,
         largePoolSize           |-> lf + la,
         size                    |-> sf + sa + lf + la + un,
         unusedSize              |-> un,
         smallPoolFreeBlockCount |-> sc,
         largePoolFreeBlockCount |-> lc]

OneEach(pool) == [i \in Classes(pool) |-> 1]

\* The arena before any mutation: one free and one allocated block in
\* every size class, and eight words never used.
InitArena ==
    Summary(OneEach("small"), OneEach("large"),
            FreeBytes("small", OneEach("small"), SMALL_SIZES),
            FreeBytes("large", OneEach("large"), LARGE_ORDERS),
            8 * WORD_SIZE)

\* Byte counts drawn for the arithmetic: the documented example
\* (H=1,000,000, HA=100,000, SA=50,000, LA=20,000) and the smallest counts.
ExampleBytes == {20000, 50000, 100000, 1000000}
ByteVals == (0..MaxBytes) \cup ExampleBytes

\* Summaries with arbitrary unsigned byte counts.
ArithArenas ==
    { [smallPoolFree           |-> sf,
       smallPoolAllocated      |-> sa,
       smallPoolSize           |-> AddSz(sf, sa),
       largePoolFree           |-> lf,
       largePoolAllocated      |-> la,
       largePoolSize           |-> AddSz(lf, la),
       size                    |-> h,
       unusedSize              |-> un,
       smallPoolFreeBlockCount |-> OneEach("small"),
       largePoolFreeBlockCount |-> OneEach("large")] :
      sf \in ByteVals, lf \in ByteVals, h \in ByteVals, un \in ByteVals,
      sa \in 0..MaxBytes, la \in 0..MaxBytes }

\* Summaries with arbitrary free-block counters.
HistArenas ==
    { Summary(sc, lc, WORD_SIZE, 2 * WORD_SIZE, 8 * WORD_SIZE) :
      sc \in [1..SMALL_SIZES -> 0..MaxCount],
      lc \in [1..LARGE_ORDERS -> 0..MaxCount] }

\* sdr_usage(sdr, &sdrUsage): the SdrUsageSummary of the heap.
sdr_usage(a) ==
    [smallPoolFree           |-> a.smallPoolFree,
     smallPoolAllocated      |-> a.smallPoolAllocated,
     smallPoolSize           |-> a.smallPoolSize,
     largePoolFree           |-> a.largePoolFree,
     largePoolAllocated      |-> a.largePoolAllocated,
     largePoolSize           |-> a.largePoolSize,
     heapSize                |-> a.size,
     unusedSize              |-> a.unusedSize,
     smallPoolFreeBlockCount |-> a.smallPoolFreeBlockCount,
     largePoolFreeBlockCount |-> a.largePoolFreeBlockCount]

\* psm_usage(psm, &psmUsage): the PsmUsageSummary of the partition.
psm_usage(a) ==
    [smallPoolFree           |-> a.smallPoolFree,
     smallPoolAllocated      |-> a.smallPoolAllocated,
     smallPoolSize           |-> a.smallPoolSize,
     largePoolFree           |-> a.largePoolFree,
     largePoolAllocated      |-> a.largePoolAllocated,
     largePoolSize           |-> a.largePoolSize,
     partitionSize           |-> a.size,
     unusedSize              |-> a.unusedSize,
     smallPoolFreeBlockCount |-> a.smallPoolFreeBlockCount,
     largePoolFreeBlockCount |-> a.largePoolFreeBlockCount]

(* ------------------------------------------------------------------ *)
(* State                                                                *)
(* ------------------------------------------------------------------ *)

VARIABLES
    sdrArena,     \* counters of the SDR heap, as sdr_usage reports them
    psmArena,     \* counters of the PSM partition, as psm_usage reports them
    xnOwner,      \* who holds the SDR transaction: "none", "reader", "mutator"
    mut,          \* the mutating client: its position and the update it makes
    nXn,          \* transactions the mutating clients have begun
    committed,    \* the heap counters when no mutator transaction was open
    pc,           \* position of the Python caller inside the entry point
    fn,           \* the entry point being run: "none", "sdr", "psm"
    arg,          \* sdrName of sdr_dump, memKey of psm_dump
    sdr,          \* the Sdr handle of pyion_sdr_dump
    usage,        \* sdrUsage / psmUsage
    result,       \* what the entry point returns to Python
    calls,        \* the collaborator calls of the current call, in order,
                  \* each with the value it returned (0 for void and NULL)
    heldAtUsage,  \* whether the reader held the transaction in sdr_usage
    seen,         \* value of committed when sdr_usage ran
    prev,         \* last results returned while the heap stayed unchanged
    dirty         \* whether the heap was written since the current call began

arenaVars  == <<sdrArena, psmArena>>
mutVars    == <<mut, nXn, committed>>
callVars   == <<pc, fn, arg, sdr, usage, result, calls, heldAtUsage, seen>>
vars == <<sdrArena, psmArena, xnOwner, mut, nXn, committed, pc, fn, arg, sdr,
          usage, result, calls, heldAtUsage, seen, prev, dirty>>

MutIdle == [pc |-> "idle", kind |-> "none", pool |-> "none", i |-> 0]

NoPrev == [sdr |-> NoResult, psm |-> NoResult]

\* Everything but the arenas, before the first call.
InitRest ==
    /\ xnOwner = "none"
    /\ mut = MutIdle
    /\ nXn = 0
    /\ committed = sdrArena
    /\ pc = "idle"
    /\ fn = "none"
    /\ arg = ""
    /\ sdr = NULL
    /\ usage = NoUsage
    /\ result = NoResult
    /\ calls = <<>>
    /\ heldAtUsage = FALSE
    /\ seen = NoUsage
    /\ prev = NoPrev
    /\ dirty = FALSE

Init ==
    /\ sdrArena = InitArena
    /\ psmArena = InitArena
    /\ InitRest

\* Arbitrary byte counts in both arenas.
InitArith ==
    /\ sdrArena \in ArithArenas
    /\ psmArena = sdrArena
    /\ InitRest

\* Arbitrary free-block counters in both arenas.
InitHist ==
    /\ sdrArena \in HistArenas
    /\ psmArena = sdrArena
    /\ InitRest

(* ------------------------------------------------------------------ *)
(* pyion_sdr_dump                                                       *)
(* ------------------------------------------------------------------ *)

\* sdr_start_using(sdrName): a handle on the named SDR, or NULL.
sdr_start_using(name) ==
    IF name \in SdrNames THEN {"sdr:" \o name, NULL} ELSE {NULL}

AfterAttachNoXn(h) == IF h = NULL THEN "ret" ELSE "sdr_usage"

\* if (sdr == NULL) { ...; return NULL; } and what follows it.
AfterAttach(h) == IF h = NULL THEN "ret" ELSE "sdr_begin_xn"

\* Lines 89-100: parse the name, initialise, attach.
SdrDumpCall(name) ==
    /\ pc = "idle"
    /\ fn' = "sdr"
    /\ arg' = name
    /\ \E h \in sdr_start_using(name) :
          /\ sdr' = h
          /\ pc' = AfterAttach(h)
          /\ result' = IF h = NULL
                       THEN RaiseExc("MemoryError", AttachSdrMsg, <<name>>)
                       ELSE NoResult
          /\ calls' = << <<"sdr_initialize", 0>>,
                         <<"sdr_start_using", IF h = NULL THEN 0 ELSE 1>> >>
    /\ dirty' = FALSE
    /\ UNCHANGED <<arenaVars, xnOwner, mutVars, usage, heldAtUsage, seen, prev>>

\* sdr_pybegin_xn(sdr) when the transaction is granted: the caller waits
\* until no other client holds it.
sdr_pybegin_xn_granted ==
    /\ xnOwner = "none"
    /\ xnOwner' = "reader"

\* The exception sdr_pybegin_xn leaves when the transaction is refused.
sdr_pybegin_xn_error(name) == RaiseExc("TransactionError", BeginXnMsg, <<name>>)

AfterBeginXnAlways(ok) == "sdr_usage"

\* if (!sdr_pybegin_xn(sdr)) return NULL;
AfterBeginXn(ok) == IF ok THEN "sdr_usage" ELSE "ret"

\* Line 103.
SdrBeginXn ==
    /\ pc = "sdr_begin_xn"
    /\ \/ /\ sdr_pybegin_xn_granted
          /\ calls' = Append(calls, <<"sdr_pybegin_xn", 1>>)
          /\ pc' = AfterBeginXn(TRUE)
          /\ UNCHANGED result
       \/ /\ UNCHANGED xnOwner
          /\ calls' = Append(calls, <<"sdr_pybegin_xn", 0>>)
          /\ result' = sdr_pybegin_xn_error(arg)
          /\ pc' = AfterBeginXn(FALSE)
    /\ UNCHANGED <<arenaVars, mutVars, fn, arg, sdr, usage, heldAtUsage, seen,
                   prev, dirty>>

sdr_usage_heap_reset(a) == [a EXCEPT !.smallPoolFree = 0]

\* The heap after sdr_usage(sdr, &sdrUsage): the query only reads.
sdr_usage_heap(a) == a

AfterUsageNoEnd == "sdr_shape"

\* The statement after sdr_usage(sdr, &sdrUsage).
AfterUsage == "sdr_end_xn"

\* Line 104.
SdrUsage ==
    /\ pc = "sdr_usage"
    /\ calls' = Append(calls, <<"sdr_usage", 0>>)
    /\ usage' = sdr_usage(sdrArena)
    /\ sdrArena' = sdr_usage_heap(sdrArena)
    /\ heldAtUsage' = (xnOwner = "reader")
    /\ seen' = sdr_usage(committed)
    /\ pc' = AfterUsage
    /\ UNCHANGED <<psmArena, xnOwner, mutVars, fn, arg, sdr, result, prev, dirty>>

\* Values sdr_end_xn(sdr) returns.
EndXnCodes == {-1, 0}

\* sdr_end_xn(sdr): the transaction of the caller, if it holds one, ends.
sdr_end_xn(owner) == IF owner = "reader" THEN "none" ELSE owner

\* if (!sdr_end_xn(sdr)) return NULL;
AfterEndXn(rc) == IF rc = 0 THEN "ret" ELSE "sdr_shape"

\* Line 105.
SdrEndXn ==
    /\ pc = "sdr_end_xn"
    /\ xnOwner' = sdr_end_xn(xnOwner)
    /\ \E rc \in EndXnCodes :
          /\ calls' = Append(calls, <<"sdr_end_xn", rc>>)
          /\ pc' = AfterEndXn(rc)
          /\ result' = IF rc = 0 THEN ReturnNull ELSE result
    /\ UNCHANGED <<arenaVars, mutVars, fn, arg, sdr, usage, heldAtUsage, seen,
                   prev, dirty>>

\* Lines 107-154: shape the summary, stop using the SDR, build the tuple.
SdrShape ==
    /\ pc = "sdr_shape"
    /\ calls' = Append(calls, <<"sdr_stop_using", 0>>)
    /\ result' = SdrResult(usage)
    /\ pc' = "ret"
    /\ UNCHANGED <<arenaVars, xnOwner, mutVars, fn, arg, sdr, usage,
                   heldAtUsage, seen, prev, dirty>>

(* ------------------------------------------------------------------ *)
(* pyion_psm_dump                                                       *)
(* ------------------------------------------------------------------ *)

\* Values sm_ipc_init() returns.
IpcInitCodes == {-1, 0}

\* Values memmgr_open(memKey, ...) returns.
memmgr_open(key) == IF key \in PsmKeys THEN {-1, 0} ELSE {-1}

\* if (sm_ipc_init() < 0) { ...; return NULL; } and what follows it.
AfterIpcInit(rc) == IF rc < 0 THEN "ret" ELSE "psm_open"

\* Lines 178-185: parse the arguments, initialise IPC.
PsmDumpCall(key) ==
    /\ pc = "idle"
    /\ fn' = "psm"
    /\ arg' = key
    /\ \E rc \in IpcInitCodes :
          /\ calls' = << <<"sm_ipc_init", rc>> >>
          /\ pc' = AfterIpcInit(rc)
          /\ result' = IF rc < 0
                       THEN RaiseExc("MemoryError", IpcInitMsg, <<>>)
                       ELSE NoResult
    /\ dirty' = FALSE
    /\ UNCHANGED <<arenaVars, xnOwner, mutVars, sdr, usage, heldAtUsage, seen,
                   prev>>

AfterOpenPositive(rc) == IF rc > 0 THEN "ret" ELSE "psm_usage"

\* if (memmgr_open(...) < 0) { ...; return NULL; } and what follows it.
AfterOpen(rc) == IF rc < 0 THEN "ret" ELSE "psm_usage"

\* Lines 187-192.
PsmOpen ==
    /\ pc = "psm_open"
    /\ \E rc \in memmgr_open(arg) :
          /\ calls' = Append(calls, <<"memmgr_open", rc>>)
          /\ pc' = AfterOpen(rc)
          /\ result' = IF rc < 0
                       THEN RaiseExc("MemoryError", AttachPsmMsg, <<arg>>)
                       ELSE result
    /\ UNCHANGED <<arenaVars, xnOwner, mutVars, fn, arg, sdr, usage,
                   heldAtUsage, seen, prev, dirty>>

\* The partition after psm_usage(psm, &psmUsage): the query only reads.
psm_usage_partition(a) == a

\* Line 195.
PsmUsage ==
    /\ pc = "psm_usage"
    /\ calls' = Append(calls, <<"psm_usage", 0>>)
    /\ usage' = psm_usage(psmArena)
    /\ psmArena' = psm_usage_partition(psmArena)
    /\ pc' = "psm_shape"
    /\ UNCHANGED <<sdrArena, xnOwner, mutVars, fn, arg, sdr, result,
                   heldAtUsage, seen, prev, dirty>>

\* Lines 197-237: shape the summary and build the tuple.
PsmShape ==
    /\ pc = "psm_shape"
    /\ result' = PsmResult(usage)
    /\ pc' = "ret"
    /\ UNCHANGED <<arenaVars, xnOwner, mutVars, fn, arg, sdr, usage, calls,
                   heldAtUsage, seen, prev, dirty>>

\* The entry point has returned; Python may call the module again.
Return ==
    /\ pc = "ret"
    /\ prev' = IF result.kind = "ok" /\ (fn = "psm" \/ ~dirty)
               THEN [prev EXCEPT ![fn] = result]
               ELSE prev
    /\ pc' = "idle"
    /\ fn' = "none"
    /\ arg' = ""
    /\ sdr' = NULL
    /\ usage' = NoUsage
    /\ result' = NoResult
    /\ calls' = <<>>
    /\ heldAtUsage' = FALSE
    /\ seen' = NoUsage
    /\ UNCHANGED <<arenaVars, xnOwner, mutVars, dirty>>

(* ------------------------------------------------------------------ *)
(* Other clients of the SDR: allocation and release inside transactions *)
(* ------------------------------------------------------------------ *)

Pools == {"small", "large"}

CountField(pool) ==
    IF pool = "small" THEN "smallPoolFreeBlockCount"
    ELSE "largePoolFreeBlockCount"
FreeField(pool) ==
    IF pool = "small" THEN "smallPoolFree" ELSE "largePoolFree"
AllocatedField(pool) ==
    IF pool = "small" THEN "smallPoolAllocated" ELSE "largePoolAllocated"

\* +1 when the update returns a block to the pool, -1 when it takes one.
Sign(kind) == IF kind = "free" THEN 1 ELSE -1

\* A client begins a transaction to allocate or free one block.
MutBegin(kind, pool, i) ==
    /\ mut.pc = "idle"
    /\ xnOwner = "none"
    /\ nXn < MaxXn
    /\ IF kind = "alloc"
       THEN sdrArena[CountField(pool)][i] > 0
       ELSE /\ sdrArena[CountField(pool)][i] < MaxBlocks
            /\ sdrArena[AllocatedField(pool)] >= BlockSize(pool, i)
    /\ xnOwner' = "mutator"
    /\ nXn' = nXn + 1
    /\ mut' = [pc |-> "count", kind |-> kind, pool |-> pool, i |-> i]
    /\ UNCHANGED <<arenaVars, committed, callVars, prev, dirty>>

\* First write of the update: the free-block counter of the class.
MutWriteCount ==
    /\ mut.pc = "count"
    /\ sdrArena' = [sdrArena EXCEPT ![CountField(mut.pool)][mut.i] =
                                        @ + Sign(mut.kind)]
    /\ mut' = [mut EXCEPT !.pc = "free"]
    /\ dirty' = TRUE
    /\ prev' = [prev EXCEPT !.sdr = NoResult]
    /\ UNCHANGED <<psmArena, xnOwner, nXn, committed, callVars>>

\* Second write: the free bytes of the pool.
MutWriteFree ==
    /\ mut.pc = "free"
    /\ sdrArena' = [sdrArena EXCEPT ![FreeField(mut.pool)] =
                        @ + Sign(mut.kind) * BlockSize(mut.pool, mut.i)]
    /\ mut' = [mut EXCEPT !.pc = "allocated"]
    /\ dirty' = TRUE
    /\ prev' = [prev EXCEPT !.sdr = NoResult]
    /\ UNCHANGED <<psmArena, xnOwner, nXn, committed, callVars>>

\* Third write: the allocated bytes of the pool.
MutWriteAllocated ==
    /\ mut.pc = "allocated"
    /\ sdrArena' = [sdrArena EXCEPT ![AllocatedField(mut.pool)] =
                        @ - Sign(mut.kind) * BlockSize(mut.pool, mut.i)]
    /\ mut' = [mut EXCEPT !.pc = "end"]
    /\ dirty' = TRUE
    /\ prev' = [prev EXCEPT !.sdr = NoResult]
    /\ UNCHANGED <<psmArena, xnOwner, nXn, committed, callVars>>

\* The client ends its transaction.
MutEnd ==
    /\ mut.pc = "end"
    /\ xnOwner' = "none"
    /\ committed' = sdrArena
    /\ mut' = MutIdle
    /\ UNCHANGED <<arenaVars, nXn, callVars, prev, dirty>>

(* ------------------------------------------------------------------ *)
(* Specifications                                                       *)
(* ------------------------------------------------------------------ *)

\* The calls Python makes into the module, one at a time.
NextCalls ==
    \/ \E name \in ArgNames : SdrDumpCall(name)
    \/ SdrBeginXn
    \/ SdrUsage
    \/ SdrEndXn
    \/ SdrShape
    \/ \E key \in ArgKeys : PsmDumpCall(key)
    \/ PsmOpen
    \/ PsmUsage
    \/ PsmShape
    \/ Return

NextMutator ==
    \/ \E kind \in {"alloc", "free"}, pool \in Pools :
          \E i \in Classes(pool) : MutBegin(kind, pool, i)
    \/ MutWriteCount
    \/ MutWriteFree
    \/ MutWriteAllocated
    \/ MutEnd

Next == NextCalls \/ NextMutator

\* The module called while other clients mutate the SDR heap.
Spec == Init /\ [][Next]_vars

\* The module called on arenas with arbitrary byte counts.
SpecArith == InitArith /\ [][NextCalls]_vars

\* The module called on arenas with arbitrary free-block counters.
SpecHist == InitHist /\ [][NextCalls]_vars

(* ------------------------------------------------------------------ *)
(* Properties                                                           *)
(* ------------------------------------------------------------------ *)

\* Number of times the current call made the collaborator call name.
Count(name) == Cardinality({k \in DOMAIN calls : calls[k][1] = name})

\* The current call made the collaborator call name and it returned rc.
Returned(name, rc) == \E k \in DOMAIN calls : calls[k] = <<name, rc>>

\* pyion_sdr_dump has returned to Python.
SdrReturned == pc = "ret" /\ fn = "sdr"

\* pyion_psm_dump has returned to Python.
PsmReturned == pc = "ret" /\ fn = "psm"

\* C1: every call of pyion_sdr_dump in which sdr_start_using returned a
\* valid handle has called sdr_stop_using exactly once when it returns,
\* on every exit path.
C1_HandleReleasedOnce ==
    (SdrReturned /\ sdr # NULL) => Count("sdr_stop_using") = 1

\* C2: a read transaction that was begun is ended exactly once within the
\* same call, and a call that has returned, with a result or an error,
\* holds no transaction.
C2_XnEndedOnce ==
    /\ pc \in {"idle", "ret"} => xnOwner # "reader"
    /\ Count("sdr_end_xn") <= 1
    /\ SdrReturned =>
          Count("sdr_end_xn") =
              (IF Returned("sdr_pybegin_xn", 1) THEN 1 ELSE 0)

\* A call that was granted the transaction has returned.
C2_Witness ==
    SdrReturned /\ Returned("sdr_pybegin_xn", 1) /\ Count("sdr_end_xn") = 1

\* C3: sdr_usage runs only while the reader holds its transaction: after
\* a granted begin and before the end; a refused begin ends the call with
\* the transaction error and without any sdr_usage.
C3_UsageOnlyInXn ==
    /\ \A k \in DOMAIN calls :
          calls[k][1] = "sdr_usage" =>
              /\ heldAtUsage
              /\ \E j \in 1..(k - 1) : calls[j] = <<"sdr_pybegin_xn", 1>>
              /\ \A j \in 1..(k - 1) : calls[j][1] # "sdr_end_xn"
    /\ Returned("sdr_pybegin_xn", 0) /\ pc # "sdr_begin_xn" =>
          /\ pc = "ret"
          /\ result.kind = "error"
          /\ result.exc = "TransactionError"
          /\ Count("sdr_usage") = 0

\* A call whose transaction was refused has returned.
C3_Witness == SdrReturned /\ Returned("sdr_pybegin_xn", 0)

\* The byte totals of a result agree with each other and with its
\* histograms, as they do in every heap state between transactions.
RECURSIVE HistBytes(_, _)
HistBytes(h, keys) ==
    IF keys = {} THEN 0
    ELSE LET k == CHOOSE x \in keys : TRUE
         IN  k * h[k] + HistBytes(h, keys \ {k})

Untorn(r) ==
    /\ r.agg.small_pool_avail + r.agg.small_pool_used = r.agg.small_pool_total
    /\ r.agg.large_pool_avail + r.agg.large_pool_used = r.agg.large_pool_total
    /\ r.agg.small_pool_avail = HistBytes(r.sp, DOMAIN r.sp)
    /\ r.agg.large_pool_avail = HistBytes(r.lp, DOMAIN r.lp)
    /\ r.agg.small_pool_total + r.agg.large_pool_total + r.agg.heap_avail
          = r.agg.heap_size

\* C4: with other clients updating the heap in several writes per
\* transaction, every result of pyion_sdr_dump carries the counters of one
\* heap state in which no mutator transaction was open.
C4_AtomicSnapshot ==
    (SdrReturned /\ result.kind = "ok") =>
        /\ result.agg.small_pool_avail = seen.smallPoolFree
        /\ result.agg.small_pool_used  = seen.smallPoolAllocated
        /\ result.agg.small_pool_total = seen.smallPoolSize
        /\ result.agg.large_pool_avail = seen.largePoolFree
        /\ result.agg.large_pool_used  = seen.largePoolAllocated
        /\ result.agg.large_pool_total = seen.largePoolSize
        /\ result.agg.heap_size        = seen.heapSize
        /\ result.agg.heap_avail       = seen.unusedSize
        /\ \A i \in 1..SMALL_SIZES :
              result.sp[WORD_SIZE * i] = seen.smallPoolFreeBlockCount[i]
        /\ \A i \in 1..LARGE_ORDERS :
              result.lp[WORD_SIZE * (2 ^ i)] = seen.largePoolFreeBlockCount[i]
        /\ Untorn(result)

\* A result was returned after the heap had been mutated, while a mutator
\* transaction is open again.
C4_Witness ==
    /\ SdrReturned
    /\ result.kind = "ok"
    /\ seen # sdr_usage(InitArena)
    /\ mut.pc \in {"free", "allocated"}

\* C5: a successful pyion_sdr_dump returns heap_used = H-(SA+LA+HA) and
\* max_heap_used = H-HA as size_t differences, which are the integer
\* differences whenever they are not negative, and returns H and HA
\* unchanged as heap_size and heap_avail.
C5_AggregateIdentity ==
    (SdrReturned /\ result.kind = "ok") =>
        LET H  == sdrArena.size
            HA == sdrArena.unusedSize
            SA == sdrArena.smallPoolFree
            LA == sdrArena.largePoolFree
        IN  /\ result.agg.heap_size = H
            /\ result.agg.heap_avail = HA
            /\ result.agg.heap_used = (H - (SA + LA + HA)) % SizeMod
            /\ result.agg.max_heap_used = (H - HA) % SizeMod
            /\ SA + LA + HA <= H => result.agg.heap_used = H - (SA + LA + HA)
            /\ HA <= H => result.agg.max_heap_used = H - HA

\* The documented example: H=1,000,000, HA=100,000, SA=50,000, LA=20,000.
C5_Witness ==
    /\ SdrReturned
    /\ result.kind = "ok"
    /\ sdrArena.size = 1000000
    /\ sdrArena.unusedSize = 100000
    /\ sdrArena.smallPoolFree = 50000
    /\ sdrArena.largePoolFree = 20000
    /\ result.agg.heap_used = 830000
    /\ result.agg.max_heap_used = 900000

\* C6 as stated: every result of pyion_sdr_dump has
\* heap_used <= max_heap_used <= heap_size, whatever unsigned byte counts
\* the summary holds.
C6_Original ==
    (SdrReturned /\ result.kind = "ok") =>
        /\ result.agg.heap_used <= result.agg.max_heap_used
        /\ result.agg.max_heap_used <= result.agg.heap_size

\* C6 amended: every result of pyion_sdr_dump read from a summary with
\* SA + LA + HA <= H has heap_used <= max_heap_used <= heap_size.
C6_Amended ==
    (/\ SdrReturned
     /\ result.kind = "ok"
     /\ sdrArena.smallPoolFree + sdrArena.largePoolFree + sdrArena.unusedSize
           <= sdrArena.size) =>
        /\ result.agg.heap_used <= result.agg.max_heap_used
        /\ result.agg.max_heap_used <= result.agg.heap_size

\* A result read from a summary whose free and unused bytes fit the heap,
\* none of them zero.
C6_Witness ==
    /\ SdrReturned
    /\ result.kind = "ok"
    /\ sdrArena.smallPoolFree > 0
    /\ sdrArena.largePoolFree > 0
    /\ sdrArena.unusedSize > 0
    /\ sdrArena.smallPoolFree + sdrArena.largePoolFree + sdrArena.unusedSize
          <= sdrArena.size

\* The arena the entry point that has returned reads from.
ReadArena == IF fn = "sdr" THEN sdrArena ELSE psmArena

\* C7: for both readers the small-pool histogram is exactly
\* { WORD_SIZE*(i+1) -> smallPoolFreeBlockCount[i] : 0 <= i < SMALL_SIZES }
\* and the large-pool histogram exactly
\* { WORD_SIZE*2^(i+1) -> largePoolFreeBlockCount[i] : 0 <= i < LARGE_ORDERS },
\* with SMALL_SIZES and LARGE_ORDERS entries, keys increasing with i.
C7_Histograms ==
    (pc = "ret" /\ result.kind = "ok") =>
        /\ DOMAIN result.sp = {WORD_SIZE * (i + 1) : i \in 0..(SMALL_SIZES - 1)}
        /\ DOMAIN result.lp =
              {WORD_SIZE * (2 ^ (i + 1)) : i \in 0..(LARGE_ORDERS - 1)}
        /\ Cardinality(DOMAIN result.sp) = SMALL_SIZES
        /\ Cardinality(DOMAIN result.lp) = LARGE_ORDERS
        /\ \A i \in 0..(SMALL_SIZES - 1) :
              /\ result.sp[WORD_SIZE * (i + 1)] =
                    ReadArena.smallPoolFreeBlockCount[i + 1]
              /\ \A j \in 0..(i - 1) : WORD_SIZE * (j + 1) < WORD_SIZE * (i + 1)
        /\ \A i \in 0..(LARGE_ORDERS - 1) :
              /\ result.lp[WORD_SIZE * (2 ^ (i + 1))] =
                    ReadArena.largePoolFreeBlockCount[i + 1]
              /\ \A j \in 0..(i - 1) :
                    WORD_SIZE * (2 ^ (j + 1)) < WORD_SIZE * (2 ^ (i + 1))

\* The direct reader returns histograms with zero and non-zero counts
\* after the transactional reader returned its own.
C7_Witness ==
    /\ PsmReturned
    /\ result.kind = "ok"
    /\ prev.sdr.kind = "ok"
    /\ \E k \in DOMAIN result.sp : result.sp[k] = 0
    /\ \E k \in DOMAIN result.sp : result.sp[k] > 0
    /\ \E k \in DOMAIN result.lp : result.lp[k] = 0
    /\ \E k \in DOMAIN result.lp : result.lp[k] > 0

\* C8: a failed collaborator step ends the call with the error of that
\* step and no result: a NULL handle gives the attach error naming the
\* SDR; a negative sm_ipc_init gives the IPC error and memmgr_open is not
\* called; a negative memmgr_open gives the attach error with the key and
\* psm_usage is not called.
C8_FirstFailure ==
    /\ (SdrReturned /\ Returned("sdr_start_using", 0)) =>
          /\ result = RaiseExc("MemoryError", AttachSdrMsg, <<arg>>)
          /\ Len(calls) = 2
    /\ (PsmReturned /\ Returned("sm_ipc_init", -1)) =>
          /\ result = RaiseExc("MemoryError", IpcInitMsg, <<>>)
          /\ Count("memmgr_open") = 0
          /\ Count("psm_usage") = 0
    /\ (fn = "psm" /\ Returned("memmgr_open", -1)) =>
          /\ pc = "ret"
          /\ result = RaiseExc("MemoryError", AttachPsmMsg, <<arg>>)
          /\ Count("psm_usage") = 0
    /\ result.kind = "error" => DOMAIN result = {"kind", "exc", "msg", "args"}

\* memmgr_open has failed for the key of the partition that exists.
C8_Witness ==
    PsmReturned /\ Returned("memmgr_open", -1) /\ arg \in PsmKeys

AggregateNames ==
    {"small_pool_avail", "small_pool_used", "small_pool_total",
     "large_pool_avail", "large_pool_used", "large_pool_total"}

\* C9 as stated: the aggregate of a successful pyion_psm_dump has the
\* six pool fields and partition_size, partition_avail, and no others.
C9_Original ==
    (PsmReturned /\ result.kind = "ok") =>
        /\ DOMAIN result.agg =
              AggregateNames \cup {"partition_size", "partition_avail"}
        /\ result.agg["partition_size"] = psmArena.size
        /\ result.agg["partition_avail"] = psmArena.unusedSize

\* C9 amended: the aggregate of a successful pyion_psm_dump has the six
\* pool fields and wm_size (the summary's partitionSize) and wm_avail
\* (its unusedSize), comes with the two histograms, and has no heap_used
\* or max_heap_used field.
C9_Amended ==
    (PsmReturned /\ result.kind = "ok") =>
        /\ DOMAIN result = {"kind", "agg", "sp", "lp"}
        /\ DOMAIN result.agg = AggregateNames \cup {"wm_size", "wm_avail"}
        /\ result.agg.wm_size = psmArena.size
        /\ result.agg.wm_avail = psmArena.unusedSize
        /\ result.agg.small_pool_avail = psmArena.smallPoolFree
        /\ result.agg.small_pool_used  = psmArena.smallPoolAllocated
        /\ result.agg.small_pool_total = psmArena.smallPoolSize
        /\ result.agg.large_pool_avail = psmArena.largePoolFree
        /\ result.agg.large_pool_used  = psmArena.largePoolAllocated
        /\ result.agg.large_pool_total = psmArena.largePoolSize
        /\ "heap_used" \notin DOMAIN result.agg
        /\ "max_heap_used" \notin DOMAIN result.agg

\* A result of the direct reader for a partition whose size and unused
\* bytes differ.
C9_Witness ==
    /\ PsmReturned
    /\ result.kind = "ok"
    /\ psmArena.size # psmArena.unusedSize

\* C10: no step of either entry point changes a counter of either arena,
\* whatever the outcome of the call, and a call that returns a result
\* while the heap stayed unchanged since the previous result of the same
\* entry point returns that same result.
C10_NoMutation ==
    [][/\ pc' # pc => (sdrArena' = sdrArena /\ psmArena' = psmArena)
       /\ (/\ pc' = "ret"
           /\ pc # "ret"
           /\ result'.kind = "ok"
           /\ ~dirty'
           /\ prev[fn'].kind = "ok") => result' = prev[fn']]_vars

\* A second consecutive result of the transactional reader, after the
\* heap had been mutated and with error outcomes of the direct reader
\* before it.
C10_Witness ==
    /\ SdrReturned
    /\ result.kind = "ok"
    /\ ~dirty
    /\ prev.sdr.kind = "ok"
    /\ prev.psm.kind = "ok"
    /\ nXn > 0

====
